---- MODULE Spec2Model ----
(***************************************************************************)
(* Document redaction pipeline: the four handler variants of               *)
(* src/container (statistical PDF, pattern PDF, pattern TIFF, statistical  *)
(* TIFF), the per-page processing they share, and one document run.        *)
(*                                                                         *)
(* Offsets into the flattened page text are 0-based as in Python; a text   *)
(* is a sequence of one-character strings, so offset k is element k+1.     *)
(* A page raster is one row of ImgWidth pixels, x in 0..ImgWidth-1, with   *)
(* values 0..MaxPix (0 is black); token boxes span the full height.        *)
(* Normalized box coordinates are numerators over BoxDen.                  *)
(***************************************************************************)
EXTENDS Integers, Sequences, FiniteSets, TLC

\* ---------------------------------------------------------------- bounds
MaxTokens == 3
MaxPages == 3
ImgWidth == 6
MaxPix == 2
MaxEntities == 1

\* ------------------------------------------------------ program constants
\* scores are in hundredths: 0.9 is 90
ThresholdPdf == 90
ThresholdTiff == 80
FillColour == 0

Variants == {"pdf_stat", "pdf_re", "tiff_re", "tiff_v2"}
PdfVariants == {"pdf_stat", "pdf_re"}
TiffVariants == {"tiff_re", "tiff_v2"}
StatVariants == {"pdf_stat", "tiff_v2"}
PatternVariants == {"pdf_re", "tiff_re"}

redaction_confidence_score(v) == IF v = "pdf_stat" THEN ThresholdPdf ELSE ThresholdTiff

\* ------------------------------------------------------------- characters
Digits == {"0", "1", "2", "3", "4", "5", "6", "7", "8", "9"}
Letters == {"A", "B", "C", "D", "E", "F", "G", "H", "I", "J", "K", "L", "M",
            "N", "O", "P", "Q", "R", "S", "T", "U", "V", "W", "X", "Y", "Z",
            "a", "b", "c", "d", "e", "f", "g", "h", "i", "j", "k", "l", "m",
            "n", "o", "p", "q", "r", "s", "t", "u", "v", "w", "x", "y", "z"}
WordChars == Digits \cup Letters \cup {"_"}

\* the character at 0-based offset k, "" outside the text
Ch(text, k) == IF k >= 0 /\ k < Len(text) THEN text[k + 1] ELSE ""

IsDigit(c) == c \in Digits
IsAlpha(c) == c \in Letters
IsSpace(c) == c = " "
IsSep(c) == c = "-" \/ IsSpace(c)

\* \b : exactly one side of offset k is a word character
WordBoundary(text, k) == (Ch(text, k - 1) \in WordChars) # (Ch(text, k) \in WordChars)

\* \d{n} at offset k
DigitsAt(text, k, n) == \A j \in 0..(n - 1) : IsDigit(Ch(text, k + j))

\* [-\s]? at offset k, followed by a digit: the offset after it
OptSep(text, k) == IF IsSep(Ch(text, k)) THEN k + 1 ELSE k

\* main_pdf_re.py ssn_pattern matched at offset p: the end offset, or -1
MatchPdfRe(text, p) ==
    LET k1 == OptSep(text, p + 2)
        k2 == OptSep(text, k1 + 3)
        k3 == OptSep(text, k2 + 2)
    IN  IF /\ WordBoundary(text, p)
           /\ IsAlpha(Ch(text, p)) /\ IsAlpha(Ch(text, p + 1))
           /\ DigitsAt(text, k1, 3)
           /\ DigitsAt(text, k2, 2)
           /\ DigitsAt(text, k3, 4)
           /\ WordBoundary(text, k3 + 4)
        THEN k3 + 4 ELSE -1

\* (?!666|000|[9..]) at offset p
SsnLookahead(text, p) ==
    /\ ~(\A j \in 0..2 : Ch(text, p + j) = "6")
    /\ ~(\A j \in 0..2 : Ch(text, p + j) = "0")
    /\ Ch(text, p) \notin {"9", "."}

\* main_tiff_re.py ssn_pattern matched at offset p: its three alternatives
\* in order; the end offset, or -1
MatchTiffRe(text, p) ==
    IF ~SsnLookahead(text, p) THEN -1
    ELSE IF /\ DigitsAt(text, p, 3) /\ Ch(text, p + 3) = "-"
            /\ DigitsAt(text, p + 4, 2) /\ Ch(text, p + 6) = "-"
            /\ DigitsAt(text, p + 7, 4)
         THEN p + 11
    ELSE IF /\ DigitsAt(text, p, 3) /\ IsSpace(Ch(text, p + 3))
            /\ DigitsAt(text, p + 4, 2) /\ IsSpace(Ch(text, p + 6))
            /\ DigitsAt(text, p + 7, 4)
         THEN p + 11
    ELSE IF DigitsAt(text, p, 9) THEN p + 9
    ELSE -1

MatchAt(v, text, p) == IF v = "pdf_re" THEN MatchPdfRe(text, p) ELSE MatchTiffRe(text, p)

\* the matched characters text[b:e]
Slice(text, b, e) == SubSeq(text, b + 1, e)

\* one entity of a pattern detector; main_tiff_re.py adds the matched text
PatternEntity(v, text, b, e) ==
    [BeginOffset |-> b, EndOffset |-> e, Score |-> 100, Type |-> "SSN",
     Text |-> IF v = "tiff_re" THEN Slice(text, b, e) ELSE <<>>]

\* re.finditer: leftmost matches, scanning on from the end of each match
RECURSIVE FindIter(_, _, _)
FindIter(v, text, p) ==
    IF p >= Len(text) THEN <<>>
    ELSE LET e == MatchAt(v, text, p)
         IN  IF e >= 0 THEN <<PatternEntity(v, text, p, e)>> \o FindIter(v, text, e)
             ELSE FindIter(v, text, p + 1)

detect_ssn(v, text) == FindIter(v, text, 0)

\* --------------------------------------------------------- OCR response
BoxDen == MaxTokens

\* a WORD block: its text and its normalized box (numerators over BoxDen)
WordBlock(text, j) ==
    [BlockType |-> "WORD", Text |-> text, Left |-> j - 1, Width |-> 1]
PageBlock == [BlockType |-> "PAGE", Text |-> <<>>, Left |-> 0, Width |-> BoxDen]
LineBlock == [BlockType |-> "LINE", Text |-> <<>>, Left |-> 0, Width |-> BoxDen]

\* the blocks detect_document_text returns for a page whose words are
\* tokens: the PAGE block, a LINE block when withLine, the WORD blocks
Blocks(tokens, withLine) ==
    <<PageBlock>> \o (IF withLine THEN <<LineBlock>> ELSE <<>>)
                  \o [j \in 1..Len(tokens) |-> WordBlock(tokens[j], j)]

\* ------------------------------------------------ geometry index builder
\* the loop over textract_response['Blocks']: word_to_geometry in
\* insertion order, each entry keyed by text_start_index
\* the index loop with the counter advanced by the word's length only, the
\* separator forgotten
RECURSIVE BuildIndex_no_separator(_, _, _)
BuildIndex_no_separator(blocks, k, text_start_index) ==
    IF k > Len(blocks) THEN <<>>
    ELSE IF blocks[k].BlockType = "WORD"
         THEN <<[start |-> text_start_index,
                 text |-> blocks[k].Text,
                 left |-> blocks[k].Left * ImgWidth,
                 width |-> blocks[k].Width * ImgWidth]>>
              \o BuildIndex_no_separator(blocks, k + 1, text_start_index + Len(blocks[k].Text))
         ELSE BuildIndex_no_separator(blocks, k + 1, text_start_index)
RECURSIVE BuildIndex(_, _, _)
BuildIndex(blocks, k, text_start_index) ==
    IF k > Len(blocks) THEN <<>>
    ELSE IF blocks[k].BlockType = "WORD"
         THEN <<[start |-> text_start_index,
                 text |-> blocks[k].Text,
                 left |-> blocks[k].Left * ImgWidth,
                 width |-> blocks[k].Width * ImgWidth]>>
              \o BuildIndex(blocks, k + 1, text_start_index + Len(blocks[k].Text) + 1)
         ELSE BuildIndex(blocks, k + 1, text_start_index)

word_to_geometry(blocks) == BuildIndex(blocks, 1, 0)

\* the list full_text of word texts, in emission order
RECURSIVE WordTexts(_, _)
WordTexts(blocks, k) ==
    IF k > Len(blocks) THEN <<>>
    ELSE (IF blocks[k].BlockType = "WORD" THEN <<blocks[k].Text>> ELSE <<>>)
         \o WordTexts(blocks, k + 1)

\* the words joined with nothing between them
RECURSIVE Join_no_separator(_)
Join_no_separator(words) ==
    IF Len(words) = 0 THEN <<>>
    ELSE IF Len(words) = 1 THEN words[1]
    ELSE words[1] \o Join_no_separator(Tail(words))
\* ' '.join(words)
RECURSIVE Join(_)
Join(words) ==
    IF Len(words) = 0 THEN <<>>
    ELSE IF Len(words) = 1 THEN words[1]
    ELSE words[1] \o <<" ">> \o Join(Tail(words))

full_text(blocks) == Join(WordTexts(blocks, 1))

\* any(block['BlockType'] in ['LINE', 'WORD'] ...) of main_tiff_re.py
has_text(blocks) == \E k \in 1..Len(blocks) : blocks[k].BlockType \in {"LINE", "WORD"}

\* ------------------------------------------------ span-to-region resolver
\* the bbox (x1, y1, x2, y2) of an index entry, as numerators over BoxDen
\* (one row: only x1 and x2)
BBox(word_data) == <<word_data.left, word_data.left + word_data.width>>

\* the inner loop over word_to_geometry.items(): the boxes of the entries
\* with start_index <= begin_offset < word_end_index, in index order
RECURSIVE ResolveFrom(_, _, _)
ResolveFrom(index, k, begin_offset) ==
    IF k > Len(index) THEN <<>>
    ELSE (IF /\ index[k].start <= begin_offset
             /\ begin_offset < index[k].start + Len(index[k].text)
          THEN <<BBox(index[k])>> ELSE <<>>)
         \o ResolveFrom(index, k + 1, begin_offset)

\* a resolver that yields the box of every entry whose character range
\* intersects the span
Resolve_covering(index, entity) ==
    LET hit == SelectSeq(index, LAMBDA w : /\ w.start < entity.EndOffset
                                           /\ entity.BeginOffset < w.start + Len(w.text))
    IN  [j \in 1..Len(hit) |-> BBox(hit[j])]

\* the boxes of the entries that hold the span's begin offset
Resolve(index, entity) == ResolveFrom(index, 1, entity.BeginOffset)

\* the guard with the threshold itself accepted
ActsOn_at_threshold(v, entity) ==
    IF v \in StatVariants
    THEN entity.Score >= redaction_confidence_score(v) /\ entity.Type = "SSN"
    ELSE TRUE
\* the guard of the entity loop: the statistical variants act on SSN
\* entities above the threshold, the pattern variants on every entity
ActsOn(v, entity) ==
    IF v \in StatVariants
    THEN entity.Score > redaction_confidence_score(v) /\ entity.Type = "SSN"
    ELSE TRUE

\* the regions redacted for a list of entities, in loop order
RECURSIVE RegionsOf(_, _, _, _)
RegionsOf(v, index, entities, k) ==
    IF k > Len(entities) THEN <<>>
    ELSE (IF ActsOn(v, entities[k]) THEN Resolve(index, entities[k]) ELSE <<>>)
         \o RegionsOf(v, index, entities, k + 1)

\* --------------------------------------------------------------- redactor
Cols == 0..(ImgWidth - 1)

\* int(coord) of a non-negative coordinate
IntCoord(num) == num \div BoxDen

\* draw.rectangle([x1, y1, x2, y2], fill='black'): both corners included
FillCols(bbox) == {x \in Cols : IntCoord(bbox[1]) <= x /\ x <= IntCoord(bbox[2])}

redact_region(image, bbox) ==
    [x \in Cols |-> IF x \in FillCols(bbox) THEN FillColour ELSE image[x]]

\* image.crop((x1, y1, x2, y2)) / image.paste(region, (x1, y1)): x2 excluded
CropCols(bbox) == {x \in Cols : IntCoord(bbox[1]) <= x /\ x < IntCoord(bbox[2])}

\* GaussianBlur on the cropped region: each pixel becomes a rounded
\* weighted mean of the region's pixels around it, edges extended
BlurAt(image, cols, x) ==
    LET lo == IF (x - 1) \in cols THEN x - 1 ELSE x
        hi == IF (x + 1) \in cols THEN x + 1 ELSE x
    IN  (image[lo] + 2 * image[x] + image[hi] + 2) \div 4

blur_region(image, bbox) ==
    [x \in Cols |-> IF x \in CropCols(bbox) THEN BlurAt(image, CropCols(bbox), x)
                    ELSE image[x]]

Redactor(v, image, bbox) ==
    IF v \in PatternVariants THEN redact_region(image, bbox) ELSE blur_region(image, bbox)

\* the pixels the redactor of variant v is applied to
RegionCols(v, bbox) == IF v \in PatternVariants THEN FillCols(bbox) ELSE CropCols(bbox)

RECURSIVE ApplyRegions(_, _, _, _)
ApplyRegions(v, image, regions, k) ==
    IF k > Len(regions) THEN image
    ELSE ApplyRegions(v, Redactor(v, image, regions[k]), regions, k + 1)

\* ------------------------------------------------- per-page processing
\* a PIL image object, and encoded image bytes, holding raster px
Img(px) == [kind |-> "image", px |-> px]
Bytes(px) == [kind |-> "bytes", px |-> px]

\* the pages that return before detection: the tuple returned, or <<>>
\* when processing goes on.  main.py and main_pdf_re.py return a pair on
\* empty text; main_tiff_re.py returns the input bytes when there is no
\* LINE or WORD block and the image object when the text is empty;
\* main_tiff_v2.py has no such return
EarlyReturn(v, image, blocks) ==
    IF v \in PdfVariants
    THEN (IF full_text(blocks) = <<>> THEN <<Img(image), <<>>>> ELSE <<>>)
    ELSE IF v = "tiff_re"
    THEN (IF ~has_text(blocks) THEN <<Bytes(image), <<>>, blocks>>
          ELSE IF full_text(blocks) = <<>> THEN <<Img(image), <<>>, blocks>>
          ELSE <<>>)
    ELSE <<>>

\* the entities of the page: the detector's response (statistical), or
\* detect_ssn on the flattened text (pattern)
PiiResponse(v, blocks, nlp) ==
    IF v \in StatVariants THEN nlp.Entities ELSE detect_ssn(v, full_text(blocks))

\* the regions the entity loop redacts, in order
PageRegions(v, blocks, pii) == RegionsOf(v, word_to_geometry(blocks), pii, 1)

\* the tuple returned after the entity loop
FinalReturn(v, image, blocks, pii) ==
    LET out == ApplyRegions(v, image, PageRegions(v, blocks, pii), 1)
    IN  IF v = "pdf_stat" THEN <<Img(out), pii>>
        ELSE IF v = "pdf_re" THEN <<Img(out), pii, blocks>>
        ELSE IF v = "tiff_re" THEN <<Bytes(out), pii, blocks>>
        ELSE <<Bytes(out), pii>>

\* process_single_image with the OCR failure swallowed: the page is passed
\* through unredacted with no entities
process_single_image_swallow(v, image, ocr, nlp) ==
    IF ~ocr.ok
    THEN [raised |-> FALSE,
          ret |-> IF v \in PatternVariants
                  THEN <<(IF v \in PdfVariants THEN Img(image) ELSE Bytes(image)), <<>>, <<>>>>
                  ELSE <<(IF v \in PdfVariants THEN Img(image) ELSE Bytes(image)), <<>>>>]
    ELSE IF EarlyReturn(v, image, ocr.Blocks) # <<>>
    THEN [raised |-> FALSE, ret |-> EarlyReturn(v, image, ocr.Blocks)]
    ELSE IF v \in StatVariants /\ ~nlp.ok THEN [raised |-> TRUE, ret |-> <<>>]
    ELSE [raised |-> FALSE,
          ret |-> FinalReturn(v, image, ocr.Blocks, PiiResponse(v, ocr.Blocks, nlp))]

\* process_single_image / process_image on one page: ocr and nlp are the
\* collaborators' answers ([ok, Blocks] and [ok, Entities]); an answer that
\* is not ok raises
process_single_image(v, image, ocr, nlp) ==
    IF ~ocr.ok THEN [raised |-> TRUE, ret |-> <<>>]
    ELSE IF EarlyReturn(v, image, ocr.Blocks) # <<>>
    THEN [raised |-> FALSE, ret |-> EarlyReturn(v, image, ocr.Blocks)]
    ELSE IF v \in StatVariants /\ ~nlp.ok THEN [raised |-> TRUE, ret |-> <<>>]
    ELSE [raised |-> FALSE,
          ret |-> FinalReturn(v, image, ocr.Blocks, PiiResponse(v, ocr.Blocks, nlp))]

\* ---------------------------------------------------------- input sets
\* words the OCR collaborator may return on a page
TokenTexts ==
    { <<"A", "B">>,
      <<"1", "2", "3", "-", "4", "5", "-", "6", "7", "8", "9">>,
      <<"1", "2", "3">>, <<"4", "5">>, <<"6", "7", "8", "9">>,
      <<"S", "S", "N", ":">>, <<"e", "n", "d">> }

\* the statistical variants never look into the text: one short word
StatTexts == { <<"A", "B">> }

RECURSIVE SeqsUpTo(_, _)
SeqsUpTo(S, n) ==
    IF n = 0 THEN {<<>>}
    ELSE LET shorter == SeqsUpTo(S, n - 1)
         IN  shorter \cup {Append(q, x) : q \in {r \in shorter : Len(r) = n - 1}, x \in S}

PageTokens(v) == SeqsUpTo(IF v \in StatVariants THEN StatTexts ELSE TokenTexts, MaxTokens)

\* the raster of page n: a ramp, shifted by the page number
PageRaster(n) == [x \in Cols |-> (x + n) % (MaxPix + 1)]

EntityTypes == {"SSN", "NAME"}

\* scores at the threshold of variant v and above it
Scores(v) == {redaction_confidence_score(v), redaction_confidence_score(v) + 5}

\* the entities the detection collaborator may return on a text: any begin
\* offset in the text, ending right after it or at the end of the text
NlpEntities(v, text) ==
    { [BeginOffset |-> b, EndOffset |-> e, Score |-> s, Type |-> t, Text |-> <<>>] :
        b \in 0..(Len(text) - 1), e \in {Len(text)} , s \in Scores(v), t \in EntityTypes }
    \cup
    { [BeginOffset |-> b, EndOffset |-> b + 1, Score |-> s, Type |-> t, Text |-> <<>>] :
        b \in 0..(Len(text) - 1), s \in Scores(v), t \in EntityTypes }

NlpResponses(v, text) == SeqsUpTo(NlpEntities(v, text), MaxEntities)

\* the pattern variants do not call the detection collaborator
NlpAnswers(v, text) == IF v \in StatVariants THEN NlpResponses(v, text) ELSE {<<>>}

\* ------------------------------------------------------------------ state
VARIABLES
    variant,                \* which handler runs
    \* one page through process_single_image / process_image
    pg_pc,                  \* "idle", "start", "indexed", "detected", "returned", "raised"
    pg_image,               \* the page raster passed in
    pg_blocks,              \* textract_response['Blocks']
    pg_pii,                 \* pii_response['Entities']
    pg_regions,             \* the boxes handed to the redactor, in order
    pg_ret,                 \* the tuple returned
    \* one document run through lambda_handler
    pc,                     \* position in the handler
    images,                 \* the page rasters of the input document
    in_valid,               \* whether the input bytes parse as a document
    processed_images,
    all_pii_responses,
    all_text_responses,
    output_pdf,             \* the pages of the document being reassembled
    body,                   \* the document handed to put_object
    store,                  \* the objects of this run in the destination bucket
    published,              \* calls of sns_worker.publish
    sns_error,              \* whether a call of sns_worker.publish raised
    failure,                \* the exception that ended the run, or "none"
    result,                 \* "running", "raised", "returned"
    ret,                    \* the value returned to the caller
    ocr_log,                \* the OCR collaborator's answers so far
    nlp_log                 \* the detection collaborator's answers so far

pageVars == <<pg_pc, pg_image, pg_blocks, pg_pii, pg_regions, pg_ret>>
runVars == <<pc, images, in_valid, processed_images, all_pii_responses,
             all_text_responses, output_pdf, body, store, published, sns_error,
             failure, result, ret, ocr_log, nlp_log>>
vars == <<variant, pageVars, runVars>>

None == "None"

PageIdle ==
    /\ pg_pc = "idle" /\ pg_image = PageRaster(0) /\ pg_blocks = <<>>
    /\ pg_pii = <<>> /\ pg_regions = <<>> /\ pg_ret = <<>>

RunIdle ==
    /\ pc = "idle" /\ images = <<>> /\ in_valid = TRUE
    /\ processed_images = <<>> /\ all_pii_responses = <<>>
    /\ all_text_responses = <<>> /\ output_pdf = <<>> /\ body = None
    /\ store = <<>> /\ published = 0 /\ sns_error = FALSE /\ failure = "none"
    /\ result = "running" /\ ret = None /\ ocr_log = <<>> /\ nlp_log = <<>>

\* ===================================================== one page, stepwise
InitPage ==
    /\ variant \in Variants
    /\ pg_pc = "start"
    /\ pg_image \in {PageRaster(n) : n \in 0..MaxPix}
    /\ pg_blocks = <<>> /\ pg_pii = <<>> /\ pg_regions = <<>> /\ pg_ret = <<>>
    /\ RunIdle

\* detect_document_text raises
PageOcrFail ==
    /\ pg_pc = "start"
    /\ pg_pc' = "raised"
    /\ UNCHANGED <<variant, pg_image, pg_blocks, pg_pii, pg_regions, pg_ret, runVars>>

\* detect_document_text answers; the index and the text are built; a page
\* without text returns here
PageOcr ==
    /\ pg_pc = "start"
    /\ \E tokens \in PageTokens(variant), withLine \in BOOLEAN :
         /\ pg_blocks' = Blocks(tokens, withLine)
         /\ pg_ret' = EarlyReturn(variant, pg_image, Blocks(tokens, withLine))
         /\ pg_pc' = IF EarlyReturn(variant, pg_image, Blocks(tokens, withLine)) # <<>>
                     THEN "returned" ELSE "indexed"
    /\ UNCHANGED <<variant, pg_image, pg_pii, pg_regions, runVars>>

\* detect_pii_entities raises (statistical variants)
PageDetectFail ==
    /\ pg_pc = "indexed"
    /\ variant \in StatVariants
    /\ pg_pc' = "raised"
    /\ UNCHANGED <<variant, pg_image, pg_blocks, pg_pii, pg_regions, pg_ret, runVars>>

\* the entity locator answers
PageDetect ==
    /\ pg_pc = "indexed"
    /\ \E entities \in NlpAnswers(variant, full_text(pg_blocks)) :
         pg_pii' = PiiResponse(variant, pg_blocks, [ok |-> TRUE, Entities |-> entities])
    /\ pg_pc' = "detected"
    /\ UNCHANGED <<variant, pg_image, pg_blocks, pg_regions, pg_ret, runVars>>

\* the entity loop and the return
PageRedact ==
    /\ pg_pc = "detected"
    /\ pg_regions' = PageRegions(variant, pg_blocks, pg_pii)
    /\ pg_ret' = FinalReturn(variant, pg_image, pg_blocks, pg_pii)
    /\ pg_pc' = "returned"
    /\ UNCHANGED <<variant, pg_image, pg_blocks, pg_pii, runVars>>

NextPage == PageOcrFail \/ PageOcr \/ PageDetectFail \/ PageDetect \/ PageRedact

SpecPage == InitPage /\ [][NextPage]_vars

\* ================================================= one document run
\* ---- inputs of a run
RunTokens(v) ==
    IF v \in StatVariants THEN { <<<<"A", "B">>>> }
    ELSE { <<<<"A", "B">>, <<"1", "2", "3", "-", "4", "5", "-", "6", "7", "8", "9">>>>,
           <<<<"1", "2", "3", "-", "4", "5", "-", "6", "7", "8", "9">>>> }

\* the answers of the OCR collaborator: a failure, a page without words
\* (with or without a LINE block), a page with words
RunOcr(v) ==
    { [ok |-> FALSE, Blocks |-> <<>>] }
    \cup { [ok |-> TRUE, Blocks |-> Blocks(<<>>, withLine)] : withLine \in BOOLEAN }
    \cup { [ok |-> TRUE, Blocks |-> Blocks(tokens, TRUE)] : tokens \in RunTokens(v) }

RunEntity(text, type, score) ==
    [BeginOffset |-> 0, EndOffset |-> Len(text), Score |-> score, Type |-> type, Text |-> <<>>]

\* the answers of the detection collaborator on a text: a failure, no
\* entity, one entity (SSN above or at the threshold, another kind), two
RunNlp(v, text) ==
    LET hi == redaction_confidence_score(v) + 5
        at == redaction_confidence_score(v)
    IN  { [ok |-> FALSE, Entities |-> <<>>], [ok |-> TRUE, Entities |-> <<>>] }
        \cup (IF text = <<>> THEN {}
              ELSE { [ok |-> TRUE, Entities |-> <<RunEntity(text, "SSN", hi)>>],
                     [ok |-> TRUE, Entities |-> <<RunEntity(text, "SSN", at)>>],
                     [ok |-> TRUE, Entities |-> <<RunEntity(text, "NAME", hi)>>],
                     [ok |-> TRUE, Entities |-> <<RunEntity(text, "SSN", hi),
                                                  RunEntity(text, "SSN", hi)>>] })

NoNlp == [ok |-> TRUE, Entities |-> <<>>]

\* whether process_single_image reaches the detection call
NlpCalled(v, image, ocr) ==
    /\ v \in StatVariants
    /\ ocr.ok
    /\ EarlyReturn(v, image, ocr.Blocks) = <<>>


\* ---- pure parts of the handlers
\* a validity check that accepts every document
check_pdf_validity_lenient(parses, pages) == TRUE
\* check_pdf_validity: the bytes parse and hold at least one page
check_pdf_validity(parses, pages) == parses /\ Len(pages) > 0

\* the number of values the caller unpacks from the per-page call
Arity(v) == IF v \in PatternVariants THEN 3 ELSE 2

output_key(v) == IF v = "pdf_stat" THEN "redacted/K" ELSE "documents/K"
pii_key(v) ==
    IF v = "pdf_stat" THEN "redacted/K.json"
    ELSE IF v = "tiff_v2" THEN "documents/K.json"
    ELSE "documents/K_pii.json"
textract_key == "documents/K_textract.json"

\* "SSN" in str(pii_detected): the serialized report holds the type name of
\* each entity, whatever its score; no other part of it can spell SSN
MentionsSSN(pii_detected) ==
    \E p \in 1..Len(pii_detected) :
        \E k \in 1..Len(pii_detected[p]) : pii_detected[p][k].Type = "SSN"

\* the test that guards sns_publish
ShouldNotify(v, pii_detected) ==
    IF v = "tiff_re" THEN Len(pii_detected[1]) > 0 ELSE MentionsSSN(pii_detected)

\* sns_publish called once for every page of the report
NotifyCount_per_page(v, pii_detected) ==
    IF ShouldNotify(v, pii_detected) THEN Len(pii_detected) ELSE 0

\* the calls of sns_publish in one run
NotifyCount(v, pii_detected) == IF ShouldNotify(v, pii_detected) THEN 1 ELSE 0

\* the handler's value on success
SuccessValue(v) ==
    IF v \in TiffVariants THEN None
    ELSE [statusCode |-> 200, output_key |-> output_key(v),
          pii_detection_results |-> IF v = "pdf_re" THEN textract_key ELSE pii_key(v)]

\* ---- the run
Init ==
    /\ variant \in Variants
    /\ PageIdle
    /\ pc = "start"
    /\ in_valid \in BOOLEAN
    /\ \E npages \in (IF variant \in PdfVariants THEN 0..MaxPages ELSE {1}) :
         images = [n \in 1..npages |-> PageRaster(n)]
    /\ processed_images = <<>> /\ all_pii_responses = <<>>
    /\ all_text_responses = <<>> /\ output_pdf = <<>> /\ body = None
    /\ store = <<>> /\ published = 0 /\ sns_error = FALSE /\ failure = "none"
    /\ result = "running" /\ ret = None /\ ocr_log = <<>> /\ nlp_log = <<>>

\* an exception reaches the handler's except clause: the PDF handlers
\* re-raise it, the TIFF handlers print it and fall off the end
Fail(reason) ==
    /\ failure' = reason
    /\ result' = IF variant \in PdfVariants THEN "raised" ELSE "returned"
    /\ ret' = None
    /\ pc' = "done"

frame == <<variant, pageVars, images, in_valid>>

FetchFail ==
    /\ pc = "start"
    /\ Fail("SourceUnavailable")
    /\ UNCHANGED <<frame, processed_images, all_pii_responses, all_text_responses,
                   output_pdf, body, store, published, sns_error, ocr_log, nlp_log>>

Fetch ==
    /\ pc = "start"
    /\ pc' = "fetched"
    /\ UNCHANGED <<frame, processed_images, all_pii_responses, all_text_responses,
                   output_pdf, body, store, published, sns_error, failure, result, ret,
                   ocr_log, nlp_log>>

\* check_pdf_validity on the input (PDF); Image.open on the input (TIFF)
ValidateInput ==
    /\ pc = "fetched"
    /\ IF variant \in PdfVariants
       THEN IF check_pdf_validity(in_valid, images)
            THEN pc' = "validated" /\ UNCHANGED <<failure, result, ret>>
            ELSE Fail("SourceInvalid")
       ELSE IF in_valid
            THEN pc' = "processing" /\ UNCHANGED <<failure, result, ret>>
            ELSE Fail("SourceInvalid")
    /\ UNCHANGED <<frame, processed_images, all_pii_responses, all_text_responses,
                   output_pdf, body, store, published, sns_error, ocr_log, nlp_log>>

\* convert_from_bytes and the test for no images
Convert ==
    /\ pc = "validated"
    /\ IF images = <<>>
       THEN Fail("SourceInvalid")
       ELSE pc' = "processing" /\ UNCHANGED <<failure, result, ret>>
    /\ UNCHANGED <<frame, processed_images, all_pii_responses, all_text_responses,
                   output_pdf, body, store, published, sns_error, ocr_log, nlp_log>>

\* one iteration of the page loop of process_pdf; the call of process_image
ProcessPage ==
    /\ pc = "processing"
    /\ Len(processed_images) < Len(images)
    /\ LET n == Len(processed_images) + 1 IN
       \E ocr \in RunOcr(variant) :
       \E nlp \in (IF NlpCalled(variant, images[n], ocr)
                   THEN RunNlp(variant, full_text(ocr.Blocks)) ELSE {NoNlp}) :
         LET r == process_single_image(variant, images[n], ocr, nlp) IN
           /\ ocr_log' = Append(ocr_log, ocr)
           /\ nlp_log' = IF NlpCalled(variant, images[n], ocr)
                         THEN Append(nlp_log, [page |-> n, ok |-> nlp.ok,
                                               Entities |-> nlp.Entities])
                         ELSE nlp_log
           /\ IF r.raised
              THEN /\ Fail("DetectionUnavailable")
                   /\ UNCHANGED <<processed_images, all_pii_responses,
                                  all_text_responses, body>>
              ELSE IF Len(r.ret) # Arity(variant)
              THEN /\ Fail("ValueError")
                   /\ UNCHANGED <<processed_images, all_pii_responses,
                                  all_text_responses, body>>
              ELSE /\ processed_images' = Append(processed_images, r.ret[1])
                   /\ all_pii_responses' = Append(all_pii_responses, r.ret[2])
                   /\ all_text_responses' =
                        IF Arity(variant) = 3 THEN Append(all_text_responses, r.ret[3])
                        ELSE all_text_responses
                   /\ body' = IF variant \in TiffVariants THEN r.ret[1] ELSE body
                   /\ pc' = IF variant \in TiffVariants THEN "put_doc"
                            ELSE IF n = Len(images) THEN "reassembling"
                            ELSE "processing"
                   /\ UNCHANGED <<failure, result, ret>>
    /\ UNCHANGED <<frame, output_pdf, store, published, sns_error>>

\* the reassembly loop with the new page put in front of the re-read copy
AppendPage_prepend ==
    /\ pc = "reassembling"
    /\ Len(output_pdf) < Len(processed_images)
    /\ LET m == Len(output_pdf) + 1
           img == processed_images[m]
       IN  /\ output_pdf' = IF Len(output_pdf) = 0 THEN <<img.px>>
                            ELSE <<img.px>> \o [k \in 1..Len(output_pdf) |-> output_pdf[k]]
           /\ pc' = IF m = Len(processed_images) THEN "compress" ELSE "reassembling"
    /\ UNCHANGED <<frame, processed_images, all_pii_responses, all_text_responses,
                   body, store, published, sns_error, failure, result, ret, ocr_log, nlp_log>>
\* one iteration of the reassembly loop: the first page is written
\* directly, a later page is appended to a re-read copy of the document
AppendPage ==
    /\ pc = "reassembling"
    /\ Len(output_pdf) < Len(processed_images)
    /\ LET m == Len(output_pdf) + 1
           img == processed_images[m]
       IN  /\ output_pdf' = IF Len(output_pdf) = 0 THEN <<img.px>>
                            ELSE [k \in 1..Len(output_pdf) |-> output_pdf[k]] \o <<img.px>>
           /\ pc' = IF m = Len(processed_images) THEN "compress" ELSE "reassembling"
    /\ UNCHANGED <<frame, processed_images, all_pii_responses, all_text_responses,
                   body, store, published, sns_error, failure, result, ret, ocr_log, nlp_log>>

\* compress_pdf copies every page into a new document; the bytes written
\* parse as a document or do not
compress_pdf(pages) == [kind |-> "bytes", pages |-> [k \in 1..Len(pages) |-> pages[k]]]

Compress ==
    /\ pc = "compress"
    /\ IF output_pdf = <<>>
       THEN Fail("ValueError") /\ UNCHANGED body
       ELSE /\ \E parses \in BOOLEAN :
                 body' = [parses |-> parses] @@ compress_pdf(output_pdf)
            /\ pc' = "validate_out"
            /\ UNCHANGED <<failure, result, ret>>
    /\ UNCHANGED <<frame, processed_images, all_pii_responses, all_text_responses,
                   output_pdf, store, published, sns_error, ocr_log, nlp_log>>

CompressFail ==
    /\ pc = "compress"
    /\ Fail("ReassemblyFailed")
    /\ UNCHANGED <<frame, processed_images, all_pii_responses, all_text_responses,
                   output_pdf, body, store, published, sns_error, ocr_log, nlp_log>>

\* check_pdf_validity on the compressed document
ValidateOutput ==
    /\ pc = "validate_out"
    /\ IF check_pdf_validity(body.parses, body.pages)
       THEN pc' = "put_doc" /\ UNCHANGED <<failure, result, ret>>
       ELSE Fail("ReassemblyFailed")
    /\ UNCHANGED <<frame, processed_images, all_pii_responses, all_text_responses,
                   output_pdf, body, store, published, sns_error, ocr_log, nlp_log>>

\* put_object accepts bytes only
Put(key, content) == store' = (key :> content) @@ store

PutDocument ==
    /\ pc = "put_doc"
    /\ IF body.kind = "bytes"
       THEN /\ Put(output_key(variant), body)
            /\ pc' = "put_report"
            /\ UNCHANGED <<failure, result, ret>>
       ELSE Fail("ParamValidationError") /\ UNCHANGED store
    /\ UNCHANGED <<frame, processed_images, all_pii_responses, all_text_responses,
                   output_pdf, body, published, sns_error, ocr_log, nlp_log>>

\* the report written without the pages that hold no entity
PutReport_skip_empty ==
    /\ pc = "put_report"
    /\ Put(pii_key(variant),
           [kind |-> "json", report |-> SelectSeq(all_pii_responses, LAMBDA e : e # <<>>)])
    /\ pc' = IF variant \in PatternVariants THEN "put_text" ELSE "notify"
    /\ UNCHANGED <<frame, processed_images, all_pii_responses, all_text_responses,
                   output_pdf, body, published, sns_error, failure, result, ret,
                   ocr_log, nlp_log>>
PutReport ==
    /\ pc = "put_report"
    /\ Put(pii_key(variant), [kind |-> "json", report |-> all_pii_responses])
    /\ pc' = IF variant \in PatternVariants THEN "put_text" ELSE "notify"
    /\ UNCHANGED <<frame, processed_images, all_pii_responses, all_text_responses,
                   output_pdf, body, published, sns_error, failure, result, ret, ocr_log, nlp_log>>

PutTextract ==
    /\ pc = "put_text"
    /\ Put(textract_key, [kind |-> "json", report |-> all_text_responses])
    /\ pc' = "notify"
    /\ UNCHANGED <<frame, processed_images, all_pii_responses, all_text_responses,
                   output_pdf, body, published, sns_error, failure, result, ret, ocr_log, nlp_log>>

\* put_object raises
PutFail ==
    /\ pc \in {"put_doc", "put_report", "put_text"}
    /\ Fail("SinkUnavailable")
    /\ UNCHANGED <<frame, processed_images, all_pii_responses, all_text_responses,
                   output_pdf, body, store, published, sns_error, ocr_log, nlp_log>>

\* whether sns_publish raises to its caller when sns_worker.publish raised
\* (ok false): with the try/except left out it does
sns_publish_unguarded(ok) == ~ok

\* sns_publish catches every exception of sns_worker.publish and prints it
sns_publish_raises(ok) == FALSE

\* the test on the report and sns_publish; sns_worker.publish answers or
\* raises
Notify ==
    /\ pc = "notify"
    /\ \E ok \in BOOLEAN :
         LET calls == NotifyCount(variant, all_pii_responses) IN
         /\ (calls = 0 => ok)
         /\ published' = published + calls
         /\ sns_error' = (calls > 0 /\ ~ok)
         /\ IF calls > 0 /\ sns_publish_raises(ok)
            THEN Fail("NotifyFailed")
            ELSE pc' = "return" /\ UNCHANGED <<failure, result, ret>>
    /\ UNCHANGED <<frame, processed_images, all_pii_responses, all_text_responses,
                   output_pdf, body, store, ocr_log, nlp_log>>

Return ==
    /\ pc = "return"
    /\ result' = "returned"
    /\ ret' = SuccessValue(variant)
    /\ pc' = "done"
    /\ UNCHANGED <<frame, processed_images, all_pii_responses, all_text_responses,
                   output_pdf, body, store, published, sns_error, failure, ocr_log, nlp_log>>

Next ==
    \/ FetchFail \/ Fetch \/ ValidateInput \/ Convert \/ ProcessPage
    \/ AppendPage \/ Compress \/ CompressFail \/ ValidateOutput
    \/ PutDocument \/ PutReport \/ PutTextract \/ PutFail \/ Notify \/ Return

Spec == Init /\ [][Next]_vars

\* ============================================ the redactor, applied twice
\* the brightest value of an 8-bit greyscale raster (mode 'L')
White == 255

\* rasters of black and white pixels, as a scanned page holds them
RedactRasters == [Cols -> {FillColour, White}]

\* the boxes (x1, x2) on pixel boundaries, as numerators over BoxDen
RedactBoxes ==
    {<<x1 * BoxDen, x2 * BoxDen>> : x1 \in 0..(ImgWidth - 1), x2 \in 1..ImgWidth} \cap
    {b \in (0..(ImgWidth * BoxDen)) \X (0..(ImgWidth * BoxDen)) : b[1] < b[2]}

\* the boxes that lie fully inside box outer
BoxesInside(outer) == {b \in RedactBoxes : outer[1] <= b[1] /\ b[2] <= outer[2]}

InitRedact ==
    /\ variant \in Variants
    /\ pg_pc = "raster"
    /\ pg_image \in RedactRasters
    /\ pg_blocks = <<>> /\ pg_pii = <<>> /\ pg_regions = <<>> /\ pg_ret = <<>>
    /\ RunIdle

\* redact_region / blur_region on a rectangle of the raster
RedactOnce ==
    /\ pg_pc = "raster"
    /\ \E bbox \in RedactBoxes :
         /\ pg_regions' = <<bbox>>
         /\ pg_ret' = <<Img(Redactor(variant, pg_image, bbox))>>
    /\ pg_pc' = "redacted"
    /\ UNCHANGED <<variant, pg_image, pg_blocks, pg_pii, runVars>>

\* the same call on the returned image, for a rectangle inside the first
RedactAgain ==
    /\ pg_pc = "redacted"
    /\ \E bbox \in BoxesInside(pg_regions[1]) :
         /\ pg_regions' = Append(pg_regions, bbox)
         /\ pg_ret' = <<Img(Redactor(variant, pg_ret[1].px, bbox))>>
    /\ pg_pc' = "redacted_again"
    /\ UNCHANGED <<variant, pg_image, pg_blocks, pg_pii, runVars>>

NextRedact == RedactOnce \/ RedactAgain

SpecRedact == InitRedact /\ [][NextRedact]_vars
\* ================================================================ claims
Stored(key) == key \in DOMAIN store
Failed == failure # "none"
Succeeded == result = "returned" /\ failure = "none"

\* the failures of the collaborators (source, OCR, detection, reassembly, sink)
CollaboratorFailures ==
    {"SourceUnavailable", "SourceInvalid", "DetectionUnavailable",
     "ReassemblyFailed", "SinkUnavailable"}

\* C1: a run that failed at any step has left no object at the
\* destination; in particular the redacted document is not left stored
\* when the write of the report fails.
C1_NoPartialOutput == Failed => DOMAIN store = {}

\* C2: for a page on which OCR returns zero WORD tokens, per-page
\* processing completes without error, the page's entity list is empty and
\* its raster unchanged, and the run does not fail unless a collaborator
\* fails; in the statistical PDF, pattern PDF and pattern TIFF variants.
C2_BlankPageCompletes ==
    \A k \in 1..Len(ocr_log) :
        ( /\ variant \in {"pdf_stat", "pdf_re", "tiff_re"}
          /\ ocr_log[k].ok
          /\ WordTexts(ocr_log[k].Blocks, 1) = <<>> )
        => /\ Len(processed_images) >= k
           /\ all_pii_responses[k] = <<>>
           /\ processed_images[k].px = images[k]
           /\ (Failed => failure \in CollaboratorFailures)

\* the index entries whose character range intersects the span of entity
Covering(index, entity) ==
    {j \in 1..Len(index) :
        /\ index[j].start < entity.EndOffset
        /\ entity.BeginOffset < index[j].start + Len(index[j].text)}

Boxes(regions) == {regions[k] : k \in 1..Len(regions)}

\* C3: an acted-on span that covers characters of more than one token gets
\* one pixel region for every token its range intersects.
C3_EveryCoveringTokenRedacted ==
    pg_pc = "returned" =>
        \A k \in 1..Len(pg_pii) :
            LET index == word_to_geometry(pg_blocks)
                covered == Covering(index, pg_pii[k])
            IN  (ActsOn(variant, pg_pii[k]) /\ Cardinality(covered) > 1)
                => \A j \in covered :
                       BBox(index[j]) \in Boxes(Resolve(index, pg_pii[k]))

OcrFailedAt(k) == k \in 1..Len(ocr_log) /\ ~ocr_log[k].ok
NlpFailedAt(k) == \E j \in 1..Len(nlp_log) : nlp_log[j].page = k /\ ~nlp_log[j].ok

\* C4: when the OCR call or the detection call fails on page k the run
\* aborts: no page after k is processed, nothing is reassembled, no object
\* is put to the destination and no notification is published.
C4_AbortOnPageFailure ==
    \A k \in 1..Len(images) :
        (OcrFailedAt(k) \/ NlpFailedAt(k))
        => /\ pc = "done"
           /\ failure = "DetectionUnavailable"
           /\ result = (IF variant \in PdfVariants THEN "raised" ELSE "returned")
           /\ Len(ocr_log) = k
           /\ Len(processed_images) = k - 1
           /\ output_pdf = <<>>
           /\ DOMAIN store = {}
           /\ published = 0

\* the OCR call failed on page 2 of a 3-page document and the run is over
C4_Witness ==
    /\ Len(images) = 3
    /\ OcrFailedAt(2)
    /\ Len(all_pii_responses) = 1
    /\ result = "raised"

\* the pages of the run that hold a confirmed span
ConfirmedPages ==
    {p \in 1..Len(all_pii_responses) :
        \E k \in 1..Len(all_pii_responses[p]) : ActsOn(variant, all_pii_responses[p][k])}

\* C5: the notification is triggered if and only if the document holds at
\* least one confirmed span (kind SSN and, for the statistical strategy,
\* score above the threshold).
C5_NotifyIffConfirmed ==
    Succeeded => ((published > 0) <=> (ConfirmedPages # {}))

\* C6: the notification collaborator is invoked at most once in a run, only
\* after the document and the report have been stored, and exactly once in
\* a successful run with a confirmed entity on exactly one page.
C6_NotifyOncePerRun ==
    /\ published <= 1
    /\ (published > 0 => Stored(output_key(variant)) /\ Stored(pii_key(variant)))
    /\ (Succeeded /\ Cardinality(ConfirmedPages) = 1 => published = 1)

\* a successful multi-page run with confirmed entities on page 2 only (two
\* of them) and one notification
C6_Witness ==
    /\ Succeeded
    /\ Len(images) > 1
    /\ ConfirmedPages = {2}
    /\ Len(all_pii_responses[2]) > 1
    /\ published = 1

\* the pixels the redactor was applied to on the page
RedactedCols == UNION {RegionCols(variant, pg_regions[k]) : k \in 1..Len(pg_regions)}

\* the rasters that differ from image only inside the columns cols
Variations(image, cols) ==
    {[x \in Cols |-> IF x \in cols THEN f[x] ELSE image[x]] : f \in [cols -> 0..MaxPix]}

\* C7: after the redactor every pixel of a redacted region holds the fill
\* colour, and pages that differ only inside the redacted regions yield the
\* same redacted raster; in every variant.
C7_RedactionDestroysPixels ==
    (pg_pc = "returned" /\ pg_regions # <<>>) =>
        /\ \A x \in RedactedCols : pg_ret[1].px[x] = FillColour
        /\ \A alt \in Variations(pg_image, RedactedCols) :
               ApplyRegions(variant, alt, pg_regions, 1) = pg_ret[1].px

\* C8: a run that failed is returned to the caller as a failure: a raised
\* error, or a structured result whose status is not the success status.
C8_FailureReachesCaller ==
    (Failed /\ result # "running") =>
        \/ result = "raised"
        \/ (ret # None /\ ret.statusCode # 200)

\* whether the report holds an entry for the span marked with empty regions
GapRecorded(report, entity) ==
    \E k \in 1..Len(report) :
        /\ report[k].BeginOffset = entity.BeginOffset
        /\ report[k].EndOffset = entity.EndOffset
        /\ "Regions" \in DOMAIN report[k]
        /\ report[k].Regions = <<>>

\* C9: every acted-on span inside the text bounds either resolves to at
\* least one region or is recorded in the report with empty regions.
C9_ResolvedOrRecorded ==
    pg_pc = "returned" =>
        \A k \in 1..Len(pg_pii) :
            ( /\ ActsOn(variant, pg_pii[k])
              /\ 0 <= pg_pii[k].BeginOffset
              /\ pg_pii[k].BeginOffset < pg_pii[k].EndOffset
              /\ pg_pii[k].EndOffset <= Len(full_text(pg_blocks)) )
            => \/ Resolve(word_to_geometry(pg_blocks), pg_pii[k]) # <<>>
               \/ GapRecorded(pg_ret[2], pg_pii[k])

\* C10: a span whose begin offset is the separator after token i is
\* attributed to token i+1 and gets that token's region.
C10_SeparatorGoesToNextToken ==
    pg_pc = "returned" =>
        \A k \in 1..Len(pg_pii) :
            LET index == word_to_geometry(pg_blocks) IN
            \A j \in 1..(Len(index) - 1) :
                ( /\ ActsOn(variant, pg_pii[k])
                  /\ pg_pii[k].BeginOffset = index[j].start + Len(index[j].text) )
                => Resolve(index, pg_pii[k]) = <<BBox(index[j + 1])>>

\* the sum over j < i of len(text(j)) + 1
RECURSIVE PrefixLen(_, _)
PrefixLen(words, i) ==
    IF i <= 1 THEN 0 ELSE PrefixLen(words, i - 1) + Len(words[i - 1]) + 1

\* the position at which word i begins in the words joined by one space:
\* the length of the joined words before it and of the separator
JoinedPosition(words, i) ==
    IF i = 1 THEN 0 ELSE Len(Join(SubSeq(words, 1, i - 1))) + 1

PageIndexed == pg_pc \in {"indexed", "detected", "returned"}

\* C11: the key of token i in the offset-to-geometry index is the sum over
\* j < i of len(text(j)) + 1 and is the position at which text(i) begins in
\* the flattened text; the keys are unique and strictly ascending.
C11_IndexKeysAreTextPositions ==
    PageIndexed =>
        LET index == word_to_geometry(pg_blocks)
            words == WordTexts(pg_blocks, 1)
            text == full_text(pg_blocks)
        IN  /\ Len(index) = Len(words)
            /\ \A i \in 1..Len(index) :
                   /\ index[i].text = words[i]
                   /\ index[i].start = PrefixLen(words, i)
                   /\ index[i].start = JoinedPosition(words, i)
                   /\ Slice(text, index[i].start, index[i].start + Len(words[i])) = words[i]
            /\ \A i, j \in 1..Len(index) : i < j => index[i].start < index[j].start

\* a page of three words of different lengths is indexed: keys 0, 3 and 15
C11_Witness ==
    /\ pg_pc = "indexed"
    /\ Len(word_to_geometry(pg_blocks)) = 3
    /\ word_to_geometry(pg_blocks)[2].start = 3
    /\ word_to_geometry(pg_blocks)[3].start = 15

\* the redacted raster of input page i: the redactor applied to the
\* regions of the page's entities
RedactedPage(i) ==
    ApplyRegions(variant, images[i],
                 PageRegions(variant, ocr_log[i].Blocks, all_pii_responses[i]), 1)

\* C12: in a PDF run the document under reassembly holds, after every
\* iteration of the append loop, the redacted rasters of the first pages in
\* page order; reassembly ends with as many pages as the input, and the
\* document stored by a successful run on n pages has n pages, page i being
\* the redacted raster of input page i.
C12_ReassemblyKeepsPages ==
    variant \in PdfVariants =>
        /\ Len(output_pdf) <= Len(processed_images)
        /\ \A i \in 1..Len(output_pdf) : output_pdf[i] = RedactedPage(i)
        /\ (pc = "compress" => Len(output_pdf) = Len(images))
        /\ (Succeeded =>
               /\ Stored(output_key(variant))
               /\ Len(store[output_key(variant)].pages) = Len(images)
               /\ \A i \in 1..Len(images) :
                      store[output_key(variant)].pages[i] = RedactedPage(i))

\* a successful run on three pages, the second one changed by the redactor
C12_Witness ==
    /\ variant \in PdfVariants
    /\ Succeeded
    /\ Len(images) = 3
    /\ Len(store[output_key(variant)].pages) = 3
    /\ store[output_key(variant)].pages[2] # images[2]
    /\ store[output_key(variant)].pages[1] = images[1]

\* C13: when publishing the notification fails the run still completes
\* successfully: the failure stays inside sns_publish, the stored document
\* and report are left as written and the handler returns its normal
\* success result.
C13_PublishFailureIsSwallowed ==
    sns_error =>
        /\ pc \in {"return", "done"}
        /\ failure = "none"
        /\ Stored(output_key(variant)) /\ store[output_key(variant)] = body
        /\ Stored(pii_key(variant))
        /\ store[pii_key(variant)].report = all_pii_responses
        /\ (pc = "done" => result = "returned" /\ ret = SuccessValue(variant))

\* a PDF run whose notification failed has returned its success result
C13_Witness ==
    /\ sns_error
    /\ published = 1
    /\ pc = "done"
    /\ variant \in PdfVariants
    /\ result = "returned"
    /\ ret.statusCode = 200

\* C14: redaction is idempotent: the redactor applied to a rectangle that
\* lies fully inside an already redacted rectangle leaves every pixel as the
\* first application left it.
C14_RedactionIdempotent ==
    pg_pc = "redacted_again" =>
        pg_ret[1].px = Redactor(variant, pg_image, pg_regions[1])

\* text.split(' '): the substrings between the separators, one more than
\* there are separators
RECURSIVE Split(_)
Split(text) ==
    IF \A p \in 1..Len(text) : text[p] # " " THEN <<text>>
    ELSE LET p == CHOOSE q \in 1..Len(text) :
                      text[q] = " " /\ \A r \in 1..(q - 1) : text[r] # " "
         IN  <<SubSeq(text, 1, p - 1)>> \o Split(SubSeq(text, p + 1, Len(text)))

\* C15 as stated: for every page with N tokens, splitting the flattened
\* text on the separator yields exactly N substrings, the i-th being the
\* text of token i.
C15_SplitGivesTokens ==
    PageIndexed => Split(full_text(pg_blocks)) = WordTexts(pg_blocks, 1)

\* C15 amended: for every page with N >= 1 tokens, splitting the flattened
\* text on the separator yields exactly N substrings, the i-th being the
\* text of token i; for a page without tokens the flattened text is empty
\* and splits into one empty substring.
C15_SplitGivesTokensOfNonBlankPage ==
    PageIndexed =>
        LET words == WordTexts(pg_blocks, 1)
            parts == Split(full_text(pg_blocks))
        IN  /\ (Len(words) >= 1 =>
                   /\ Len(parts) = Len(words)
                   /\ \A i \in 1..Len(words) : parts[i] = words[i])
            /\ (Len(words) = 0 => full_text(pg_blocks) = <<>> /\ parts = <<<<>>>>)

\* a page of three words is indexed and its text splits into three parts
C15_Witness ==
    /\ pg_pc = "indexed"
    /\ Len(WordTexts(pg_blocks, 1)) = 3
    /\ Len(Split(full_text(pg_blocks))) = 3
    /\ WordTexts(pg_blocks, 1)[1] # WordTexts(pg_blocks, 1)[2]

\* the words of the page text "SSN: 123-45-6789 end"
ScenarioWords ==
    << <<"S", "S", "N", ":">>,
       <<"1", "2", "3", "-", "4", "5", "-", "6", "7", "8", "9">>,
       <<"e", "n", "d">> >>

\* C16: for the page text "SSN: 123-45-6789 end" each pattern variant (PDF
\* and TIFF) detects exactly one span, begin 5, end 16, kind SSN, score 1.0,
\* and the resolver yields one or two regions, each the box of a token
\* covering characters 5 to 16.
C16_PatternFindsScenarioSsn ==
    ( /\ pg_pc = "returned"
      /\ variant \in PatternVariants
      /\ WordTexts(pg_blocks, 1) = ScenarioWords )
    => /\ Len(pg_pii) = 1
       /\ pg_pii[1].BeginOffset = 5
       /\ pg_pii[1].EndOffset = 16
       /\ pg_pii[1].Type = "SSN"
       /\ pg_pii[1].Score = 100
       /\ Len(pg_regions) \in {1, 2}
       /\ LET index == word_to_geometry(pg_blocks)
          IN  Boxes(pg_regions) \subseteq
                  {BBox(index[j]) : j \in Covering(index, pg_pii[1])}

\* the detection result of page i: the detection collaborator's answer
\* (no entity when it was not called), or the matches of the pattern in the
\* page's text
DetectionResult(i) ==
    IF variant \in StatVariants
    THEN IF \E j \in 1..Len(nlp_log) : nlp_log[j].page = i
         THEN nlp_log[CHOOSE j \in 1..Len(nlp_log) : nlp_log[j].page = i].Entities
         ELSE <<>>
    ELSE detect_ssn(variant, full_text(ocr_log[i].Blocks))

\* C17: the report stored by a successful PDF run holds exactly one entry
\* for every input page, in page order; entry i is the detection result of
\* page i, an empty entity list for a page without text.
C17_ReportEntryPerPage ==
    (Succeeded /\ variant \in PdfVariants) =>
        /\ Stored(pii_key(variant))
        /\ Len(store[pii_key(variant)].report) = Len(images)
        /\ \A i \in 1..Len(images) :
               /\ store[pii_key(variant)].report[i] = DetectionResult(i)
               /\ (full_text(ocr_log[i].Blocks) = <<>>
                      => store[pii_key(variant)].report[i] = <<>>)

\* a successful PDF run on three pages: page 2 has no text, page 3 has an
\* entity
C17_Witness ==
    /\ Succeeded
    /\ variant \in PdfVariants
    /\ Len(images) = 3
    /\ full_text(ocr_log[2].Blocks) = <<>>
    /\ store[pii_key(variant)].report[2] = <<>>
    /\ store[pii_key(variant)].report[3] # <<>>

\* the positions of the PDF handler, in program order
StageOrder ==
    <<"start", "fetched", "validated", "processing", "reassembling", "compress",
      "validate_out", "put_doc", "put_report", "put_text", "notify", "return", "done">>

Stage(p) == CHOOSE k \in 1..Len(StageOrder) : StageOrder[k] = p

\* one step of a PDF run keeps the order of events
OrderedStep ==
    /\ Stage(pc') >= Stage(pc)
    /\ (pc' # pc /\ pc' # "done") =>
           \/ Stage(pc') = Stage(pc) + 1
           \/ (pc = "put_report" /\ pc' = "notify")
    /\ (pc' = pc) => pc \in {"processing", "reassembling"}
    /\ (pc # "processing") => UNCHANGED <<ocr_log, nlp_log, processed_images,
                                           all_pii_responses>>
    /\ (ocr_log' # ocr_log) =>
           /\ Len(ocr_log) = Len(processed_images)
           /\ Len(ocr_log') = Len(ocr_log) + 1
    /\ (pc = "processing" /\ pc' = "reassembling") =>
           Len(processed_images') = Len(images)
    /\ (pc # "reassembling") => UNCHANGED output_pdf
    /\ (pc = "reassembling" /\ pc' = "compress") => Len(output_pdf') = Len(images)
    /\ (pc # "compress") => UNCHANGED body
    /\ (pc \notin {"put_doc", "put_report", "put_text"}) => UNCHANGED store
    /\ (pc # "notify") => UNCHANGED published

\* what has happened when something is stored, and what has not happened
\* when the input is not a valid document
OrderedState ==
    /\ (DOMAIN store # {}) =>
           /\ Stage(pc) > Stage("put_doc")
           /\ Stored(output_key(variant))
           /\ store[output_key(variant)].parses
           /\ Len(store[output_key(variant)].pages) > 0
    /\ (~in_valid \/ images = <<>>) => (ocr_log = <<>> /\ DOMAIN store = {})
    /\ (published > 0) => Stored(pii_key(variant))

PdfOrderedStep == variant \in PdfVariants => OrderedStep
\* C18: in a PDF run events occur only in the order fetch, input
\* validation, per-page processing of all pages in index order, reassembly,
\* compression, output validation, store, report and notification; nothing
\* is written to the destination before the output validation has
\* succeeded, and an input that fails validation causes no OCR call and no
\* write.
C18_EventOrder ==
    /\ [](variant \in PdfVariants => OrderedState)
    /\ [][PdfOrderedStep]_vars

\* a PDF run on two pages has gone through every stage and returned, its
\* validated document stored
C18_Witness ==
    /\ variant \in PdfVariants
    /\ Succeeded
    /\ pc = "done"
    /\ Len(images) = 2
    /\ Len(ocr_log) = 2
    /\ Len(output_pdf) = 2
    /\ store[output_key(variant)].parses
    /\ Stored(pii_key(variant))

\* an entity of kind SSN with a score strictly above the threshold
SsnAboveThreshold(entity) ==
    entity.Type = "SSN" /\ entity.Score > redaction_confidence_score(variant)

Holding(index, b) ==
    {j \in 1..Len(index) :
        index[j].start <= b /\ b < index[j].start + Len(index[j].text)}

\* C20: on a page of non-empty tokens at most one token of the index
\* satisfies start <= B < start + len(text) for any begin offset B, so the
\* resolver redacts at most one rectangle for every entity span.
C20_AtMostOneRegionPerSpan ==
    PageIndexed =>
        LET index == word_to_geometry(pg_blocks) IN
        /\ \A b \in 0..Len(full_text(pg_blocks)) : Cardinality(Holding(index, b)) <= 1
        /\ \A k \in 1..Len(pg_pii) : Len(Resolve(index, pg_pii[k])) <= 1
        /\ (pg_pc = "returned" => Len(pg_regions) <= Len(pg_pii))

\* a page is returned on which a span covering two tokens got one rectangle
C20_Witness ==
    /\ pg_pc = "returned"
    /\ Len(pg_pii) = 1
    /\ Cardinality(Covering(word_to_geometry(pg_blocks), pg_pii[1])) > 1
    /\ Len(pg_regions) = 1

\* C21: in the success result of the pattern PDF handler the key returned
\* as pii_detection_results is the key under which the PII report was
\* stored (the "_pii.json" sibling of the document), and output_key is the
\* key under which the redacted document was stored.
C21_ReturnedKeysNameStoredObjects ==
    (variant = "pdf_re" /\ pc = "done" /\ Succeeded) =>
        /\ ret.output_key = output_key(variant)
        /\ Stored(ret.output_key)
        /\ store[ret.output_key] = body
        /\ ret.pii_detection_results = "documents/K_pii.json"
        /\ Stored(ret.pii_detection_results)
        /\ store[ret.pii_detection_results].report = all_pii_responses

====
